---- MODULE Spec2Model ----
(***************************************************************************)
(* A model of the `object` crate's unified object-file interface           *)
(* (src/src/lib.rs) and of its PE decoder (src/src/pe.rs).                 *)
(*                                                                         *)
(* The input buffer is modelled by what the goblin decoding library reads  *)
(* from it: the format hint `goblin::peek` returns, the outcome of the     *)
(* selected decoder's header/table decoding, the COFF machine field and    *)
(* the section table.  Byte slices are modelled as ranges [off, len] of    *)
(* the input buffer, and a Rust panic (a slice index out of range) as the  *)
(* outcome "Panic", which aborts the process.                              *)
(***************************************************************************)
EXTENDS Integers, Sequences, FiniteSets, TLC

VARIABLES
    data,         \* the input buffer handed to File::parse
    file,         \* the result of File::parse (Unparsed before the call)
    sectionIter,  \* the SectionIterator obtained from sections(), or NoIter
    segmentIter,  \* the SegmentIterator obtained from segments(), or NoIter
    sectionRets,  \* what each next() call on sectionIter returned, in order
    segmentRets,  \* what each next() call on segmentIter returned, in order
    syms,         \* Some(the Vec<Symbol> returned by symbols()), None before the call
    ret,          \* the last query: [op, arg, val]; arg is the table index of the
                  \* section or segment queried, the record index of the symbol
                  \* queried, or the name looked up
    panicked      \* TRUE once a query has panicked (the process aborted)

vars == <<data, file, sectionIter, segmentIter, sectionRets, segmentRets,
          syms, ret, panicked>>

(***************************************************************************)
(* Bounds of the model.                                                    *)
(***************************************************************************)
\* length of the input buffer, in bytes
BufLen == 1
\* largest number of entries of a section table
MaxSections == 2
\* next() calls made on an iterator after it has returned None for the first time
ExtraCalls == 2
\* largest number of records of a symbol table
MaxSymbols == 2

(***************************************************************************)
(* Constants of the PE format the code refers to.                          *)
(***************************************************************************)
COFF_MACHINE_X86 == 332
COFF_MACHINE_X86_64 == 34404
IMAGE_SCN_CNT_CODE == 32
IMAGE_SCN_CNT_INITIALIZED_DATA == 64
IMAGE_SCN_CNT_UNINITIALIZED_DATA == 128
IMAGE_SCN_MEM_EXECUTE == 536870912

(***************************************************************************)
(* Option<T>: None is the empty sequence, Some(x) the one-element one.     *)
(***************************************************************************)
None == <<>>
Some(x) == <<x>>
IsSome(o) == Len(o) = 1

\* Result<T, E> -> Option<T>
ResultOk(r) == IF r.ok THEN Some(r.val) ELSE None

Min(a, b) == IF a < b THEN a ELSE b

(***************************************************************************)
(* Bitwise and of two 32-bit values, bit by bit.                           *)
(***************************************************************************)
RECURSIVE BitAnd(_, _)
BitAnd(a, b) ==
    IF a = 0 \/ b = 0 THEN 0
    ELSE (IF a % 2 = 1 /\ b % 2 = 1 THEN 1 ELSE 0) + 2 * BitAnd(a \div 2, b \div 2)

RECURSIVE BitOr(_, _)
BitOr(a, b) ==
    IF a = 0 THEN b
    ELSE IF b = 0 THEN a
    ELSE (IF a % 2 = 1 \/ b % 2 = 1 THEN 1 ELSE 0) + 2 * BitOr(a \div 2, b \div 2)

(***************************************************************************)
(* Byte slices of the input buffer and Rust's range indexing.              *)
(***************************************************************************)
Slice(off, len) == [tag |-> "Slice", off |-> off, len |-> len]
Panic == [tag |-> "Panic", off |-> 0, len |-> 0]

\* &s[start..]: panics when start > s.len()
SliceFrom(s, start) ==
    IF s.tag = "Panic" \/ start > s.len THEN Panic
    ELSE Slice(s.off + start, s.len - start)

\* &s[..end]: panics when end > s.len()
SliceTo(s, end) ==
    IF s.tag = "Panic" \/ end > s.len THEN Panic
    ELSE Slice(s.off, end)

\* the whole input buffer as a slice
WholeBuffer(d) == Slice(0, d.len)

(***************************************************************************)
(* Input buffers.                                                          *)
(*   magic    what the leading bytes hold: "Short" is a buffer too short   *)
(*            to hold a magic, "Unknown" one whose bytes match no magic    *)
(*   decode   how the selected decoder's header/table decoding ends:       *)
(*            "ok", "header" (malformed header) or "table" (the header     *)
(*            claims a table that extends past the end of the buffer)      *)
(*   len      number of bytes                                              *)
(*   machine  the COFF header's machine field                              *)
(*   sections, segments, symbols   the decoded tables                      *)
(***************************************************************************)
Buffer(magic, decode, machine, sections, segments, symbols) ==
    [magic |-> magic, decode |-> decode, len |-> BufLen, machine |-> machine,
     sections |-> sections, segments |-> segments, symbols |-> symbols]

\* a well-formed PE image with the given machine field and section table
PeImage(machine, sections) == Buffer("PE", "ok", machine, sections, <<>>, <<>>)

\* an entry of the PE section table (goblin's SectionTable)
SectionTable(name, name_valid, va, vsize, ptr, size, characteristics) ==
    [name |-> name, name_valid |-> name_valid,
     virtual_address |-> va, virtual_size |-> vsize,
     pointer_to_raw_data |-> ptr, size_of_raw_data |-> size,
     characteristics |-> characteristics]

\* all sequences over S of length at most n
SeqUpTo(S, n) == UNION {[1..k -> S] : k \in 0..n}

(***************************************************************************)
(* The goblin library, as far as the code uses it.                         *)
(***************************************************************************)
Ok(v) == [ok |-> TRUE, val |-> v]
Err(e) == [ok |-> FALSE, val |-> e]

\* goblin::peek: reads the magic from the start of the buffer; fails when
\* the buffer is too short to hold one
peek(d) ==
    IF d.magic = "Short" THEN Err("io") ELSE Ok(d.magic)

\* goblin::pe::PE::parse: every read is bounds-checked and fails with an error
PEParse(d) ==
    CASE d.decode = "ok" -> Ok([machine |-> d.machine, sections |-> d.sections])
      [] d.decode = "header" -> Err("Malformed")
      [] OTHER -> Err("BadOffset")

\* goblin's SectionTable::name(): the name, or an error when it does not decode
SectionTableName(section) ==
    IF section.name_valid THEN Ok(section.name) ELSE Err("Utf8")

(***************************************************************************)
(* Object handles.  File { inner } holds one decoder, tagged by format.    *)
(***************************************************************************)
NoHandle ==
    [format |-> "None", machine |-> 0, sections |-> <<>>, segments |-> <<>>,
     symbols |-> <<>>, len |-> 0]

\* PeFile { pe, data }
PeFile(pe, d) ==
    [format |-> "Pe", machine |-> pe.machine, sections |-> pe.sections,
     segments |-> <<>>, symbols |-> <<>>, len |-> d.len]

\* PeFile::parse with the PE decoder's error replaced by a best-effort handle
PeFileParse_BestEffort(d) ==
    Ok(PeFile([machine |-> d.machine, sections |-> d.sections], d))

\* PeFile::parse
PeFileParse(d) ==
    LET pe == PEParse(d) IN
    IF pe.ok THEN Ok(PeFile(pe.val, d)) ELSE Err("Could not parse PE header")

\* ElfFile::parse
ElfFileParse(d) ==
    IF d.decode = "ok"
    THEN Ok([format |-> "Elf", machine |-> d.machine, sections |-> d.sections,
             segments |-> d.segments, symbols |-> d.symbols, len |-> d.len])
    ELSE Err("Could not parse ELF header")

\* MachOFile::parse
MachOFileParse(d) ==
    IF d.decode = "ok"
    THEN Ok([format |-> "MachO", machine |-> d.machine, sections |-> d.sections,
             segments |-> d.segments, symbols |-> d.symbols, len |-> d.len])
    ELSE Err("Could not parse Mach-O header")

Unparsed == [tag |-> "Unparsed", err |-> "", inner |-> NoHandle]
FileOk(inner) == [tag |-> "Ok", err |-> "", inner |-> inner]
FileErr(e) == [tag |-> "Err", err |-> e, inner |-> NoHandle]

\* `FileInternal::X(XFile::parse(data)?)`: the decoder's error is returned as it is
Wrap(r) == IF r.ok THEN FileOk(r.val) ELSE FileErr(r.val)

\* File::parse with the fallback arm building a handle for an unknown magic
FileParse_Fallback(d) ==
    LET hint == peek(d) IN
    IF ~hint.ok THEN FileErr("Could not parse file magic")
    ELSE CASE hint.val = "Elf" -> Wrap(ElfFileParse(d))
           [] hint.val = "Mach" -> Wrap(MachOFileParse(d))
           [] OTHER -> Wrap(PeFileParse(d))

\* File::parse
FileParse(d) ==
    LET hint == peek(d) IN
    IF ~hint.ok THEN FileErr("Could not parse file magic")
    ELSE CASE hint.val = "Elf" -> Wrap(ElfFileParse(d))
           [] hint.val = "Mach" -> Wrap(MachOFileParse(d))
           [] hint.val = "PE" -> Wrap(PeFileParse(d))
           [] OTHER -> FileErr("Unknown file magic")

\* PeFile::machine
PeFileMachine(x) ==
    CASE x.machine = COFF_MACHINE_X86 -> "X86"
      [] x.machine = COFF_MACHINE_X86_64 -> "X86_64"
      [] OTHER -> "Other"

(***************************************************************************)
(* PE iterators and views.  A slice::Iter over the section table is the    *)
(* sequence of the table indices it has not yielded yet; a PeSegment or    *)
(* PeSection { file, section } is a reference to one table entry.          *)
(***************************************************************************)
Indices(table) == [i \in 1..Len(table) |-> i]

\* PeFile::segments
PeFileSegments(x) == [iter |-> Indices(x.sections)]

\* PeFile::sections
PeFileSections(x) == [iter |-> Indices(x.sections)]

\* PeSegmentIterator::next
PeSegmentIteratorNext(it) ==
    IF it.iter = <<>> THEN [iter |-> it, item |-> None]
    ELSE [iter |-> [iter |-> Tail(it.iter)],
          item |-> Some([section |-> Head(it.iter)])]

\* PeSectionIterator::next yielding the front entry without advancing
PeSectionIteratorNext_Stuck(it) ==
    IF it.iter = <<>> THEN [iter |-> it, item |-> None]
    ELSE [iter |-> it, item |-> Some([section |-> Head(it.iter)])]

\* PeSectionIterator::next
PeSectionIteratorNext(it) ==
    IF it.iter = <<>> THEN [iter |-> it, item |-> None]
    ELSE [iter |-> [iter |-> Tail(it.iter)],
          item |-> Some([section |-> Head(it.iter)])]

\* the table entry a PeSegment or PeSection refers to
Entry(x, item) == x.sections[item.section]

\* PeSegment::address
PeSegmentAddress(x, seg) == Entry(x, seg).virtual_address

\* PeSegment::size returning the raw size
PeSegmentSize_Raw(x, seg) == Entry(x, seg).size_of_raw_data

\* PeSegment::size
PeSegmentSize(x, seg) == Entry(x, seg).virtual_size

\* PeSegment::data
PeSegmentData(x, seg) ==
    SliceTo(SliceFrom(WholeBuffer(x), Entry(x, seg).pointer_to_raw_data),
            Entry(x, seg).size_of_raw_data)

\* PeSegment::name
PeSegmentName(x, seg) == ResultOk(SectionTableName(Entry(x, seg)))

\* PeSection::address
PeSectionAddress(x, sec) == Entry(x, sec).virtual_address

\* PeSection::size
PeSectionSize(x, sec) == Entry(x, sec).virtual_size

\* PeSection::data clipping the range to the end of the buffer
PeSectionData_Clipped(x, sec) ==
    LET from == Min(Entry(x, sec).pointer_to_raw_data, x.len) IN
    Slice(from, Min(Entry(x, sec).size_of_raw_data, x.len - from))

\* PeSection::data
PeSectionData(x, sec) ==
    SliceTo(SliceFrom(WholeBuffer(x), Entry(x, sec).pointer_to_raw_data),
            Entry(x, sec).size_of_raw_data)

\* PeSection::name
PeSectionName(x, sec) == ResultOk(SectionTableName(Entry(x, sec)))

\* PeSection::segment_name
PeSectionSegmentName(x, sec) == None

\* PeSection::kind requiring both the code and the execute flag for Text
PeSectionKind_BothFlags(x, sec) ==
    LET c == Entry(x, sec).characteristics IN
    IF BitAnd(c, IMAGE_SCN_CNT_CODE) # 0 /\ BitAnd(c, IMAGE_SCN_MEM_EXECUTE) # 0
    THEN "Text"
    ELSE IF BitAnd(c, IMAGE_SCN_CNT_INITIALIZED_DATA) # 0 THEN "Data"
    ELSE IF BitAnd(c, IMAGE_SCN_CNT_UNINITIALIZED_DATA) # 0 THEN "UninitializedData"
    ELSE "Unknown"

\* PeSection::kind
PeSectionKind(x, sec) ==
    LET c == Entry(x, sec).characteristics IN
    IF BitAnd(c, BitOr(IMAGE_SCN_CNT_CODE, IMAGE_SCN_MEM_EXECUTE)) # 0 THEN "Text"
    ELSE IF BitAnd(c, IMAGE_SCN_CNT_INITIALIZED_DATA) # 0 THEN "Data"
    ELSE IF BitAnd(c, IMAGE_SCN_CNT_UNINITIALIZED_DATA) # 0 THEN "UninitializedData"
    ELSE "Unknown"

\* the loop of PeFile::section_data_by_name, from table index i on
RECURSIVE ScanByName(_, _, _)
ScanByName(x, section_name, i) ==
    IF i > Len(x.sections) THEN Ok(None)
    ELSE LET section == x.sections[i]
             name == SectionTableName(section)
         IN  IF name.ok /\ name.val = section_name
             THEN LET s == SliceTo(SliceFrom(WholeBuffer(x), section.pointer_to_raw_data),
                                   section.size_of_raw_data)
                  IN  IF s.tag = "Panic" THEN Err("panic") ELSE Ok(Some(s))
             ELSE ScanByName(x, section_name, i + 1)

\* PeFile::section_data_by_name: Ok(the Option returned), or Err when it panics
PeFileSectionDataByName(x, section_name) == ScanByName(x, section_name, 1)

\* PeFile::symbols
PeFileSymbols(x) == <<>>

(***************************************************************************)
(* The ELF and Mach-O decoders' iterators and symbol tables.               *)
(***************************************************************************)
\* sections() / segments() of ElfFile and MachOFile
OtherFileSections(x) == [iter |-> Indices(x.sections)]
OtherFileSegments(x) == [iter |-> Indices(x.segments)]

\* next() of the ELF and Mach-O iterators
OtherIteratorNext(it) ==
    IF it.iter = <<>> THEN [iter |-> it, item |-> None]
    ELSE [iter |-> [iter |-> Tail(it.iter)],
          item |-> Some([section |-> Head(it.iter)])]

\* a Symbol value
Symbol(kind, section, section_kind, global, name, address, size) ==
    [kind |-> kind, section |-> section, section_kind |-> section_kind,
     global |-> global, name |-> name, address |-> address, size |-> size]

\* the Symbol built from one symbol-table record: its section index is
\* resolved into the kind of the owning section; index 0 and an index that
\* names no section give an undefined symbol
SymbolOf(x, rec) ==
    Symbol(rec.kind, rec.shndx,
           IF rec.shndx = 0 \/ rec.shndx > Len(x.sections) THEN None
           ELSE Some(x.sections[rec.shndx].kind),
           rec.global, rec.name, rec.address, rec.size)

\* symbols() of ElfFile and MachOFile
OtherFileSymbols(x) == [i \in 1..Len(x.symbols) |-> SymbolOf(x, x.symbols[i])]

(***************************************************************************)
(* The unified interface: every call is dispatched on the format tag.      *)
(* The ELF and Mach-O decoders' data(), machine() and lookups are not      *)
(* modelled; those queries are made on PE handles only.                    *)
(***************************************************************************)
NoIter == [variant |-> "None", inner |-> [iter |-> <<>>]]

\* File::machine
FileMachine(x) == PeFileMachine(x)

\* File::segments (map_inner!)
FileSegments(x) ==
    CASE x.format = "Elf" -> [variant |-> "Elf", inner |-> OtherFileSegments(x)]
      [] x.format = "MachO" -> [variant |-> "MachO", inner |-> OtherFileSegments(x)]
      [] x.format = "Pe" -> [variant |-> "Pe", inner |-> PeFileSegments(x)]

\* File::sections (map_inner!)
FileSections(x) ==
    CASE x.format = "Elf" -> [variant |-> "Elf", inner |-> OtherFileSections(x)]
      [] x.format = "MachO" -> [variant |-> "MachO", inner |-> OtherFileSections(x)]
      [] x.format = "Pe" -> [variant |-> "Pe", inner |-> PeFileSections(x)]

\* File::section_data_by_name
FileSectionDataByName(x, section_name) == PeFileSectionDataByName(x, section_name)

\* File::symbols
FileSymbols(x) ==
    CASE x.format = "Pe" -> PeFileSymbols(x)
      [] OTHER -> OtherFileSymbols(x)

\* iter.next().map(|x| $to::V(x)) of next_inner!
MapNext(variant, r) ==
    [iter |-> [variant |-> variant, inner |-> r.iter],
     item |-> IF r.item = None THEN None
              ELSE Some([variant |-> variant, inner |-> r.item[1]])]

\* SegmentIterator::next (next_inner!)
SegmentIteratorNext(it) ==
    CASE it.variant = "Elf" -> MapNext("Elf", OtherIteratorNext(it.inner))
      [] it.variant = "MachO" -> MapNext("MachO", OtherIteratorNext(it.inner))
      [] it.variant = "Pe" -> MapNext("Pe", PeSegmentIteratorNext(it.inner))

\* SectionIterator::next (next_inner!)
SectionIteratorNext(it) ==
    CASE it.variant = "Elf" -> MapNext("Elf", OtherIteratorNext(it.inner))
      [] it.variant = "MachO" -> MapNext("MachO", OtherIteratorNext(it.inner))
      [] it.variant = "Pe" -> MapNext("Pe", PeSectionIteratorNext(it.inner))

\* Segment::data and Section::data, Section::kind (with_inner!)
SegmentData(x, seg) == PeSegmentData(x, seg.inner)
SectionData(x, sec) == PeSectionData(x, sec.inner)
SectionKind(x, sec) == PeSectionKind(x, sec.inner)

\* Symbol::section_kind
SymbolSectionKind(sym) == sym.section_kind

\* Symbol::is_undefined deciding by the section index
SymbolIsUndefined_ByIndex(sym) == sym.section = 0

\* Symbol::is_undefined
SymbolIsUndefined(sym) == sym.section_kind = None

(***************************************************************************)
(* Operations.                                                             *)
(***************************************************************************)
NoRet == [op |-> "none", arg |-> <<>>, val |-> <<>>]
Ret(op, arg, val) == [op |-> op, arg |-> arg, val |-> val]

HasHandle == file.tag = "Ok" /\ ~panicked

\* the number of entries segments() walks
SegmentCount(x) == IF x.format = "Pe" THEN Len(x.sections) ELSE Len(x.segments)

\* let file = File::parse(data)
Parse ==
    /\ file.tag = "Unparsed"
    /\ file' = FileParse(data)
    /\ UNCHANGED <<data, sectionIter, segmentIter, sectionRets, segmentRets,
                   syms, ret, panicked>>

\* file.machine()
MachineCall ==
    /\ HasHandle
    /\ file.inner.format = "Pe"
    /\ ret' = Ret("machine", <<>>, FileMachine(file.inner))
    /\ UNCHANGED <<data, file, sectionIter, segmentIter, sectionRets,
                   segmentRets, syms, panicked>>

\* let sections = file.sections()
Sections ==
    /\ HasHandle
    /\ sectionIter' = FileSections(file.inner)
    /\ sectionRets' = <<>>
    /\ UNCHANGED <<data, file, segmentIter, segmentRets, syms, ret, panicked>>

\* let segments = file.segments()
Segments ==
    /\ HasHandle
    /\ segmentIter' = FileSegments(file.inner)
    /\ segmentRets' = <<>>
    /\ UNCHANGED <<data, file, sectionIter, sectionRets, syms, ret, panicked>>

\* sections.next()
NextSection ==
    /\ HasHandle
    /\ sectionIter # NoIter
    /\ Len(sectionRets) < Len(file.inner.sections) + ExtraCalls
    /\ LET r == SectionIteratorNext(sectionIter) IN
         /\ sectionIter' = r.iter
         /\ sectionRets' = Append(sectionRets, r.item)
    /\ UNCHANGED <<data, file, segmentIter, segmentRets, syms, ret, panicked>>

\* segments.next()
NextSegment ==
    /\ HasHandle
    /\ segmentIter # NoIter
    /\ Len(segmentRets) < SegmentCount(file.inner) + ExtraCalls
    /\ LET r == SegmentIteratorNext(segmentIter) IN
         /\ segmentIter' = r.iter
         /\ segmentRets' = Append(segmentRets, r.item)
    /\ UNCHANGED <<data, file, sectionIter, sectionRets, syms, ret, panicked>>

\* section.data() on the k-th section yielded
SectionDataCall ==
    /\ HasHandle
    /\ \E k \in 1..Len(sectionRets) :
         /\ IsSome(sectionRets[k])
         /\ sectionRets[k][1].variant = "Pe"
         /\ LET v == SectionData(file.inner, sectionRets[k][1]) IN
              /\ ret' = Ret("Section::data", <<sectionRets[k][1].inner.section>>, v)
              /\ panicked' = (v.tag = "Panic")
    /\ UNCHANGED <<data, file, sectionIter, segmentIter, sectionRets,
                   segmentRets, syms>>

\* segment.data() on the k-th segment yielded
SegmentDataCall ==
    /\ HasHandle
    /\ \E k \in 1..Len(segmentRets) :
         /\ IsSome(segmentRets[k])
         /\ segmentRets[k][1].variant = "Pe"
         /\ LET v == SegmentData(file.inner, segmentRets[k][1]) IN
              /\ ret' = Ret("Segment::data", <<segmentRets[k][1].inner.section>>, v)
              /\ panicked' = (v.tag = "Panic")
    /\ UNCHANGED <<data, file, sectionIter, segmentIter, sectionRets,
                   segmentRets, syms>>

\* section.kind() on the k-th section yielded
SectionKindCall ==
    /\ HasHandle
    /\ \E k \in 1..Len(sectionRets) :
         /\ IsSome(sectionRets[k])
         /\ sectionRets[k][1].variant = "Pe"
         /\ ret' = Ret("Section::kind", <<sectionRets[k][1].inner.section>>,
                        SectionKind(file.inner, sectionRets[k][1]))
    /\ UNCHANGED <<data, file, sectionIter, segmentIter, sectionRets,
                   segmentRets, syms, panicked>>

\* the names looked up
LookupNames == {".text", ".data", "missing"}

\* file.section_data_by_name(name)
SectionDataByNameCall ==
    /\ HasHandle
    /\ file.inner.format = "Pe"
    /\ \E name \in LookupNames :
         LET v == FileSectionDataByName(file.inner, name) IN
           /\ ret' = Ret("section_data_by_name", <<name>>, v)
           /\ panicked' = ~v.ok
    /\ UNCHANGED <<data, file, sectionIter, segmentIter, sectionRets,
                   segmentRets, syms>>

\* let syms = file.symbols()
SymbolsCall ==
    /\ HasHandle
    /\ syms' = Some(FileSymbols(file.inner))
    /\ UNCHANGED <<data, file, sectionIter, segmentIter, sectionRets,
                   segmentRets, ret, panicked>>

\* syms[k].is_undefined() and syms[k].section_kind()
SymbolQuery ==
    /\ HasHandle
    /\ IsSome(syms)
    /\ \E k \in 1..Len(syms[1]) :
         ret' = Ret("Symbol", <<k>>,
                    [is_undefined |-> SymbolIsUndefined(syms[1][k]),
                     section_kind |-> SymbolSectionKind(syms[1][k])])
    /\ UNCHANGED <<data, file, sectionIter, segmentIter, sectionRets,
                   segmentRets, syms, panicked>>

(***************************************************************************)
(* Inputs.                                                                 *)
(***************************************************************************)
\* every (pointer_to_raw_data, size_of_raw_data) pair up to one past the buffer
Ranges == (0..(BufLen + 1)) \X (0..(BufLen + 1))

\* the i-th entry of an image whose entries differ in address and name; the
\* second entry's name does not decode; part of each section is zero-filled
SectionAt(i, range) ==
    SectionTable(IF i = 1 THEN ".text" ELSE ".data", i # 2,
                 4096 * i, range[2] + 1, range[1], range[2], IMAGE_SCN_CNT_CODE)

QueryTables ==
    UNION {{[i \in 1..n |-> SectionAt(i, r[i])] : r \in [1..n -> Ranges]} :
           n \in 0..MaxSections}

\* tables of the ELF and Mach-O decoders: only their lengths matter
OtherTable(n) == [i \in 1..n |-> [kind |-> "Text"]]

QueryBuffers ==
    {PeImage(COFF_MACHINE_X86, t) : t \in QueryTables}
    \cup {Buffer(m, "ok", 0, OtherTable(n), OtherTable(1), <<>>) :
          m \in {"Elf", "Mach"}, n \in 0..MaxSections}

LookupPool ==
    {SectionTable(nm, valid, 4096, r[2] + 1, r[1], r[2], IMAGE_SCN_CNT_CODE) :
     nm \in {".text", ".data"}, valid \in BOOLEAN, r \in Ranges}

LookupBuffers ==
    {PeImage(COFF_MACHINE_X86, t) : t \in SeqUpTo(LookupPool, MaxSections)}

Magics == {"Short", "Elf", "Mach", "MachFat", "Archive", "PE", "Unknown"}
Decodes == {"ok", "header", "table"}
\* x86, x86-64, ARM, ARM64, IA-64 and the unknown machine 0
MachineFields == {COFF_MACHINE_X86, COFF_MACHINE_X86_64, 448, 43620, 512, 0}

ParseBuffers ==
    {Buffer(m, dec, mach, <<SectionAt(1, <<0, 1>>)>>, <<>>, <<>>) :
     m \in Magics, dec \in Decodes, mach \in MachineFields}

\* the flag bits drawn: the four the code tests, IMAGE_SCN_LNK_INFO and
\* IMAGE_SCN_MEM_READ
FlagBits ==
    {IMAGE_SCN_CNT_CODE, IMAGE_SCN_CNT_INITIALIZED_DATA,
     IMAGE_SCN_CNT_UNINITIALIZED_DATA, IMAGE_SCN_MEM_EXECUTE, 512, 1073741824}

RECURSIVE SumOf(_)
SumOf(S) == IF S = {} THEN 0 ELSE LET b == CHOOSE b \in S : TRUE IN b + SumOf(S \ {b})

CharacteristicsValues == {SumOf(S) : S \in SUBSET FlagBits}

KindBuffers ==
    {PeImage(COFF_MACHINE_X86,
             <<SectionTable(".sec", TRUE, 4096, 1, 0, 1, c)>>) :
     c \in CharacteristicsValues}

SectionKinds ==
    {"Unknown", "Text", "Data", "ReadOnlyData", "UninitializedData", "Other"}

\* symbol-table records: shndx 0 is the undefined section, MaxSections + 1 an
\* index that names no section
SymbolRecords ==
    {[kind |-> "Text", shndx |-> i, global |-> TRUE, name |-> Some("f"),
      address |-> 0, size |-> 0] : i \in 0..(MaxSections + 1)}

SymbolBuffers ==
    {Buffer(m, "ok", 0, t, <<>>, y) :
       m \in {"Elf", "Mach"},
       t \in SeqUpTo({[kind |-> k] : k \in SectionKinds}, MaxSections),
       y \in SeqUpTo(SymbolRecords, MaxSymbols) \ {<<>>}}
    \cup {PeImage(COFF_MACHINE_X86, <<SectionAt(1, <<0, 1>>)>>)}

InitWith(buffers) ==
    /\ data \in buffers
    /\ file = Unparsed
    /\ sectionIter = NoIter
    /\ segmentIter = NoIter
    /\ sectionRets = <<>>
    /\ segmentRets = <<>>
    /\ syms = None
    /\ ret = NoRet
    /\ panicked = FALSE

(***************************************************************************)
(* Specifications.                                                         *)
(***************************************************************************)
\* iteration and data() over every section table
Init == InitWith(QueryBuffers)
Next ==
    \/ Parse
    \/ Sections
    \/ Segments
    \/ NextSection
    \/ NextSegment
    \/ SectionDataCall
    \/ SegmentDataCall
Spec == Init /\ [][Next]_vars

\* File::parse and machine() over every kind of buffer
InitParse == InitWith(ParseBuffers)
NextParse == Parse \/ MachineCall
SpecParse == InitParse /\ [][NextParse]_vars

\* section_data_by_name over every table of named sections
InitLookup == InitWith(LookupBuffers)
NextLookup == Parse \/ SectionDataByNameCall
SpecLookup == InitLookup /\ [][NextLookup]_vars

\* kind() over the values of the characteristics field
InitKind == InitWith(KindBuffers)
NextKind == Parse \/ Sections \/ NextSection \/ SectionKindCall
SpecKind == InitKind /\ [][NextKind]_vars

\* symbols() and the Symbol accessors
InitSymbol == InitWith(SymbolBuffers)
NextSymbol == Parse \/ SymbolsCall \/ SymbolQuery
SpecSymbol == InitSymbol /\ [][NextSymbol]_vars

(***************************************************************************)
(* Properties.                                                             *)
(***************************************************************************)
Parsed == file.tag # "Unparsed"
MatchingMagics == {"Elf", "Mach", "PE"}
FormatOf(magic) ==
    CASE magic = "Elf" -> "Elf" [] magic = "Mach" -> "MachO" [] magic = "PE" -> "Pe"

\* the table entry of the section or segment the last query was made on
QueriedEntry == data.sections[ret.arg[1]]

\* C1: whenever data() on a section or segment yielded from a PE handle
\* returns a slice, the slice is buffer[pointer_to_raw_data ..
\* pointer_to_raw_data + size_of_raw_data]: it starts at the declared
\* offset, its length is the declared raw size (not the virtual size, not a
\* clipped or padded length) and it ends inside the input buffer.
C1_DataIsRawRange ==
    (ret.op \in {"Section::data", "Segment::data"} /\ ret.val.tag = "Slice") =>
        /\ ret.val.off = QueriedEntry.pointer_to_raw_data
        /\ ret.val.len = QueriedEntry.size_of_raw_data
        /\ ret.val.off + ret.val.len <= data.len

\* C1 witness: data() returned a non-empty slice of a section whose virtual
\* size differs from its raw size.
C1_Witness ==
    /\ ret.op = "Section::data"
    /\ ret.val.tag = "Slice"
    /\ ret.val.len >= 1
    /\ QueriedEntry.virtual_size # ret.val.len

\* C2: once parse has returned a handle, no query aborts the process.
C2_NoQueryAborts == ~panicked

\* whether the single-bit flag is set in the characteristics value c
HasFlag(c, flag) == (c \div flag) % 2 = 1

\* the characteristics of the section kind() was last called on
KindArg == QueriedEntry.characteristics

\* C3 (as stated): kind() is Text when the section carries both the code and
\* the execute flag, otherwise Data, UninitializedData or Unknown by the
\* data flags.
C3_TextNeedsBothFlags ==
    ret.op = "Section::kind" =>
        ret.val =
            IF HasFlag(KindArg, IMAGE_SCN_CNT_CODE)
               /\ HasFlag(KindArg, IMAGE_SCN_MEM_EXECUTE) THEN "Text"
            ELSE IF HasFlag(KindArg, IMAGE_SCN_CNT_INITIALIZED_DATA) THEN "Data"
            ELSE IF HasFlag(KindArg, IMAGE_SCN_CNT_UNINITIALIZED_DATA)
                 THEN "UninitializedData"
            ELSE "Unknown"

\* C3 (amended): kind() is a function of the characteristics alone: Text
\* when the code flag or the execute flag is set (either one), otherwise
\* Data when the initialized-data flag is set, otherwise UninitializedData
\* when the uninitialized-data flag is set, otherwise Unknown; never
\* ReadOnlyData or Other.
C3_KindPrecedence ==
    ret.op = "Section::kind" =>
        /\ ret.val =
               IF HasFlag(KindArg, IMAGE_SCN_CNT_CODE)
                  \/ HasFlag(KindArg, IMAGE_SCN_MEM_EXECUTE) THEN "Text"
               ELSE IF HasFlag(KindArg, IMAGE_SCN_CNT_INITIALIZED_DATA) THEN "Data"
               ELSE IF HasFlag(KindArg, IMAGE_SCN_CNT_UNINITIALIZED_DATA)
                    THEN "UninitializedData"
               ELSE "Unknown"
        /\ ret.val \notin {"ReadOnlyData", "Other"}

\* C3 witness: kind() returned Text for a section that carries the execute
\* flag and the initialized-data flag but not the code flag.
C3_Witness ==
    /\ ret.op = "Section::kind"
    /\ ret.val = "Text"
    /\ HasFlag(KindArg, IMAGE_SCN_MEM_EXECUTE)
    /\ HasFlag(KindArg, IMAGE_SCN_CNT_INITIALIZED_DATA)
    /\ ~HasFlag(KindArg, IMAGE_SCN_CNT_CODE)

\* the table indices of the sections whose name resolves and equals name
Matches(name) ==
    {i \in 1..Len(data.sections) :
        data.sections[i].name_valid /\ data.sections[i].name = name}

\* the raw range of the first section named name, None when there is none
FirstMatch(name) ==
    IF Matches(name) = {} THEN None
    ELSE LET i == CHOOSE i \in Matches(name) : \A j \in Matches(name) : i <= j
         IN  Some(Slice(data.sections[i].pointer_to_raw_data,
                        data.sections[i].size_of_raw_data))

\* C4: section_data_by_name(name) returns the raw data of the first section,
\* in table order, whose resolved name equals name, and None when no
\* section matches.
C4_FirstMatchOrNone ==
    ret.op = "section_data_by_name" =>
        /\ ret.val.ok
        /\ ret.val.val = FirstMatch(ret.arg[1])

\* C4, the part the code keeps: whenever section_data_by_name returns, it
\* returns the raw data of the first matching section, or None when no
\* section matches; without a match it always returns.
C4_FirstMatchUnlessAbort ==
    ret.op = "section_data_by_name" =>
        /\ ret.val.ok => ret.val.val = FirstMatch(ret.arg[1])
        /\ Matches(ret.arg[1]) = {} => ret.val.ok

\* C5 (as stated): every buffer whose magic matches no format gets the same
\* single error from File::parse.
C5_SingleUnrecognizedError ==
    (Parsed /\ data.magic \notin MatchingMagics) =>
        \A d \in ParseBuffers :
            d.magic \notin MatchingMagics => FileParse(d) = file

\* C5 (amended): File::parse on a buffer whose magic matches no format
\* returns an error and no handle: "Could not parse file magic" when the
\* buffer is too short to hold a magic, "Unknown file magic" otherwise; a
\* handle exists only when the magic matched and the selected decoder's
\* parse succeeded, and then it carries that format's tag.
C5_UnmatchedMagicIsError ==
    Parsed =>
        /\ data.magic \notin MatchingMagics =>
               /\ file.tag = "Err"
               /\ file.err = IF data.magic = "Short"
                             THEN "Could not parse file magic"
                             ELSE "Unknown file magic"
        /\ file.tag = "Err" => file.inner = NoHandle
        /\ file.tag = "Ok" =>
               /\ data.magic \in MatchingMagics
               /\ data.decode = "ok"
               /\ file.inner.format = FormatOf(data.magic)

\* C5 witness: File::parse has returned for a buffer too short to hold a
\* magic.
C5_Witness == Parsed /\ data.magic = "Short" /\ file.tag = "Err"

TruncatedPe == Parsed /\ data.magic = "PE" /\ data.decode = "table"

C7_MachineMatchesHeader ==
    ret.op = "machine" =>
        ret.val = CASE data.machine = 332 -> "X86"
                    [] data.machine = 34404 -> "X86_64"
                    [] data.machine = 448 -> "Arm"
                    [] data.machine = 43620 -> "Arm64"
                    [] OTHER -> "Other"

\* C8: for every Symbol returned by symbols(), is_undefined() is true
\* exactly when section_kind() is None; a symbol whose section index is the
\* undefined one reports is_undefined() = true and section_kind() = None,
\* and a symbol with Some(section kind) reports is_undefined() = false.
C8_UndefinedIffNoSectionKind ==
    ret.op = "Symbol" =>
        /\ ret.val.is_undefined <=> ~IsSome(ret.val.section_kind)
        /\ data.symbols[ret.arg[1]].shndx = 0 =>
               ret.val.is_undefined /\ ~IsSome(ret.val.section_kind)
        /\ IsSome(ret.val.section_kind) => ~ret.val.is_undefined

\* C8 witness: the accessors were called on a symbol of the undefined
\* section in a file that has sections.
C8_Witness ==
    /\ ret.op = "Symbol"
    /\ data.symbols[ret.arg[1]].shndx = 0
    /\ ret.val.is_undefined
    /\ Len(data.sections) >= 1

\* what the k-th next() call on an iterator over n entries must return
ExpectedYield(k, n) ==
    IF k <= n THEN Some([variant |-> FormatOf(data.magic), inner |-> [section |-> k]])
    ELSE None

\* C9: a unified iterator keeps the handle's format variant; over any
\* sequence of next() calls, interleaved in any way with the calls on the
\* other iterator of the same handle, it yields every entry of its table
\* exactly once, in table order, wrapped in the handle's variant, then None
\* on every later call; the handle keeps its format and its table.
C9_IteratorsYieldTableInOrder ==
    file.tag = "Ok" =>
        /\ file.inner.format = FormatOf(data.magic)
        /\ file.inner.sections = data.sections
        /\ sectionIter # NoIter => sectionIter.variant = file.inner.format
        /\ segmentIter # NoIter => segmentIter.variant = file.inner.format
        /\ \A k \in 1..Len(sectionRets) :
               sectionRets[k] = ExpectedYield(k, Len(data.sections))
        /\ \A k \in 1..Len(segmentRets) :
               segmentRets[k] = ExpectedYield(k, IF data.magic = "PE"
                                                 THEN Len(data.sections)
                                                 ELSE Len(data.segments))

\* C9 witness: a section iterator over a two-entry table has yielded both
\* entries and then None twice, while a segment iterator over the same
\* handle was part-way through.
C9_Witness ==
    /\ data.magic = "PE"
    /\ Len(data.sections) = 2
    /\ Len(sectionRets) = 4
    /\ Len(segmentRets) = 1

\* C10: for a PE handle, segments() and sections() yield sequences of equal
\* length in which the i-th segment and the i-th section are the same table
\* entry and have equal address(), size(), data() and name().
C10_SegmentsAreSections ==
    (file.tag = "Ok" /\ file.inner.format = "Pe") =>
        \A k \in 1..Min(Len(sectionRets), Len(segmentRets)) :
            /\ IsSome(segmentRets[k]) <=> IsSome(sectionRets[k])
            /\ IsSome(segmentRets[k]) =>
                   LET seg == segmentRets[k][1].inner
                       sec == sectionRets[k][1].inner
                       x == file.inner
                   IN  /\ seg.section = sec.section
                       /\ PeSegmentAddress(x, seg) = PeSectionAddress(x, sec)
                       /\ PeSegmentSize(x, seg) = PeSectionSize(x, sec)
                       /\ PeSegmentData(x, seg) = PeSectionData(x, sec)
                       /\ PeSegmentName(x, seg) = PeSectionName(x, sec)

\* C10 witness: both iterators of a PE handle with two sections have been
\* run to the end.
C10_Witness ==
    /\ data.magic = "PE"
    /\ Len(data.sections) = 2
    /\ Len(sectionRets) = 3
    /\ Len(segmentRets) = 3
    /\ ~IsSome(sectionRets[3])
    /\ ~IsSome(segmentRets[3])

====
